---- MODULE Spec2Model ----
(***************************************************************************)
(* Model of the forum "posts" application (BadLanguageValidator, the       *)
(* SearchForm / Post model forms and the dashboard, create_post, edit_post *)
(* and delete_post views) and of the todo_app index view.                  *)
(*                                                                         *)
(* A Python str is modelled as a sequence of one-character strings, so     *)
(* that lower(), strip() and the `in` substring test are computed.         *)
(***************************************************************************)
EXTENDS Naturals, Sequences, FiniteSets, TLC

VARIABLES
    bad_words,   \* the validator instance's self.bad_words
    init_arg,    \* the bad_words argument the instance was constructed with
    call_value,  \* the value of the last __call__ on the instance
    outcome,     \* how the last __call__ ended
    posts,       \* the Post table, in insertion order
    next_pk,     \* the Post table's AUTOINCREMENT counter
    tasks,       \* the Task table of todo_app
    request,     \* the last HTTP request
    response     \* the response to it

vars == <<bad_words, init_arg, call_value, outcome, posts, next_pk, tasks,
          request, response>>

validator_vars == <<bad_words, init_arg, call_value, outcome>>
forum_vars == <<posts, next_pk, tasks, request, response>>

-----------------------------------------------------------------------------
(* Bounds *)

\* Longest generated text handed to the validator.
MaxTextLen == 3
\* Largest primary key the Post table hands out.
MaxPk == 2

-----------------------------------------------------------------------------
(* Python str operations *)

UpperLetters == <<"A","B","C","D","E","F","G","H","I","J","K","L","M",
                  "N","O","P","Q","R","S","T","U","V","W","X","Y","Z">>
LowerLetters == <<"a","b","c","d","e","f","g","h","i","j","k","l","m",
                  "n","o","p","q","r","s","t","u","v","w","x","y","z">>

ToLower == [c \in {UpperLetters[i] : i \in DOMAIN UpperLetters} |->
              LowerLetters[CHOOSE i \in DOMAIN UpperLetters : UpperLetters[i] = c]]

LowerChar(c) == IF c \in DOMAIN ToLower THEN ToLower[c] ELSE c

\* str.lower()
Lower(s) == [i \in 1..Len(s) |-> LowerChar(s[i])]

\* `needle in hay` for two str
Contains(hay, needle) ==
    \E i \in 0..(Len(hay) - Len(needle)) :
        SubSeq(hay, i + 1, i + Len(needle)) = needle

Whitespace == {" ", "\t", "\n"}

RECURSIVE LStrip(_)
LStrip(s) == IF s # <<>> /\ Head(s) \in Whitespace THEN LStrip(Tail(s)) ELSE s

RECURSIVE RStrip(_)
RStrip(s) == IF s # <<>> /\ s[Len(s)] \in Whitespace
             THEN RStrip(SubSeq(s, 1, Len(s) - 1)) ELSE s

\* str.strip()
Strip(s) == RStrip(LStrip(s))

-----------------------------------------------------------------------------
(* BadLanguageValidator *)

bad_word_1 == <<"b","a","d","_","w","o","r","d","_","1">>
bad_word_2 == <<"b","a","d","_","w","o","r","d","_","2">>
bad_word_3 == <<"b","a","d","_","w","o","r","d","_","3">>

DefaultBadWords == <<bad_word_1, bad_word_2, bad_word_3>>

BadLanguageMessage == "The text contains bad language"

\* bad_words=None
NoArg == [supplied |-> FALSE, val |-> <<>>]
Arg(bw) == [supplied |-> TRUE, val |-> bw]

\* Mutant: `if not bad_words` instead of `if bad_words is None`.
InitFalsy(arg) ==
    IF ~arg.supplied \/ arg.val = <<>> THEN DefaultBadWords ELSE arg.val

\* __init__: the value of self.bad_words after construction
BadLanguageValidatorInit(arg) ==
    IF ~arg.supplied THEN DefaultBadWords ELSE arg.val

Returned(self_bad_words) ==
    [kind |-> "returned", exc |-> "", message |-> "", bad_words |-> self_bad_words]
Raised(self_bad_words) ==
    [kind |-> "raised", exc |-> "ValidationError",
     message |-> BadLanguageMessage, bad_words |-> self_bad_words]
NotCalled == [kind |-> "none", exc |-> "", message |-> "", bad_words |-> <<>>]

\* the for loop of __call__, from the i-th bad word on
RECURSIVE CallLoop(_, _, _)
CallLoop(self_bad_words, value, i) ==
    IF i > Len(self_bad_words) THEN Returned(self_bad_words)
    ELSE IF Contains(Lower(value), Lower(self_bad_words[i]))
         THEN Raised(self_bad_words)
         ELSE CallLoop(self_bad_words, value, i + 1)

\* Mutant: the value is not lower-cased before the test.
RECURSIVE CallLoopNoLower(_, _, _)
CallLoopNoLower(self_bad_words, value, i) ==
    IF i > Len(self_bad_words) THEN Returned(self_bad_words)
    ELSE IF Contains(value, Lower(self_bad_words[i]))
         THEN Raised(self_bad_words)
         ELSE CallLoopNoLower(self_bad_words, value, i + 1)

CallNoLower(self_bad_words, value) == CallLoopNoLower(self_bad_words, value, 1)

\* Mutant: the rejection is handed back as a value instead of being raised.
CallReturnsMessage(self_bad_words, value) ==
    LET r == CallLoop(self_bad_words, value, 1)
    IN  IF r.kind = "raised"
        THEN [kind |-> "returned", exc |-> "", message |-> BadLanguageMessage,
              bad_words |-> self_bad_words]
        ELSE r

\* Mutant: an empty value is let through before the loop runs.
CallSkipsEmpty(self_bad_words, value) ==
    IF value = <<>> THEN Returned(self_bad_words)
    ELSE CallLoop(self_bad_words, value, 1)

\* __call__: how the call ends, and self.bad_words after it
BadLanguageValidatorCall(self_bad_words, value) ==
    CallLoop(self_bad_words, value, 1)

-----------------------------------------------------------------------------
(* Inputs of the validator *)

TextAlphabet == {"a", "A", "b"}

RECURSIVE StringsUpTo(_, _)
StringsUpTo(alphabet, n) ==
    IF n = 0 THEN {<<>>}
    ELSE LET shorter == StringsUpTo(alphabet, n - 1)
         IN  shorter \cup {Append(s, c) : s \in shorter, c \in alphabet}

ExampleText == <<"t","h","i","s"," ","h","a","s"," ","b","a","d","_","w","o",
                 "r","d","_","2"," ","i","n","s","i","d","e">>
ShoutedText == <<"B","A","D","_","W","O","R","D","_","3","!">>
CleanText == <<"b","a","d","_","w","o","r","d">>

Texts == StringsUpTo(TextAlphabet, MaxTextLen)
            \cup {ExampleText, ShoutedText, CleanText}

Blacklists == { <<>>,
                << <<>> >>,
                << <<"a">> >>,
                << <<"A","b">> >>,
                << <<"b","b">>, <<"a","a">> >>,
                << <<"b","a">>, <<>> >>,
                DefaultBadWords }

InitArgs == {NoArg} \cup {Arg(bw) : bw \in Blacklists}

-----------------------------------------------------------------------------
(* Validator actions *)

Construct(arg) ==
    /\ bad_words' = BadLanguageValidatorInit(arg)
    /\ init_arg' = arg
    /\ call_value' = <<>>
    /\ outcome' = NotCalled
    /\ UNCHANGED forum_vars

Call(value) ==
    LET r == BadLanguageValidatorCall(bad_words, value)
    IN  /\ call_value' = value
        /\ outcome' = r
        /\ bad_words' = r.bad_words
        /\ UNCHANGED <<init_arg, forum_vars>>

-----------------------------------------------------------------------------
(* Model and form fields *)

TitleMaxLength == 100
AuthorMaxLength == 30
QueryMaxLength == 100

\* Post.language: LanguageChoices.OTHER is the one member models.py names.
LanguageChoices == {"OTHER"}

\* forms.CharField.clean: strip, then the required and max_length checks.
\* has_max = FALSE is a field without max_length (a TextField's form field).
CharFieldClean(raw, required, has_max, max_length) ==
    LET value == Strip(raw)
    IN  [value |-> value,
         ok |-> IF value = <<>> THEN ~required
                ELSE ~has_max \/ Len(value) <= max_length]

\* Mutant: the field keeps the submitted text as it is (strip=False).
SearchFormCleanNoStrip(query) ==
    LET raw == IF query.present THEN query.val ELSE <<>>
    IN  [value |-> raw, ok |-> Len(raw) <= QueryMaxLength]

\* SearchForm(request.GET).is_valid() and cleaned_data["query"]
SearchFormClean(query) ==
    CharFieldClean(IF query.present THEN query.val ELSE <<>>,
                   FALSE, TRUE, QueryMaxLength)

\* Mutant: an empty pattern matches no row.
RECURSIVE TitleIContainsNonEmpty(_, _)
TitleIContainsNonEmpty(rows, q) ==
    IF rows = <<>> THEN <<>>
    ELSE IF q # <<>> /\ Contains(Lower(Head(rows).title), Lower(q))
         THEN <<Head(rows)>> \o TitleIContainsNonEmpty(Tail(rows), q)
         ELSE TitleIContainsNonEmpty(Tail(rows), q)

\* the rows of a queryset, in order, that pass .filter(title__icontains=q)
RECURSIVE FilterRows(_, _)
FilterRows(rows, q) ==
    IF rows = <<>> THEN <<>>
    ELSE IF Contains(Lower(Head(rows).title), Lower(q))
         THEN <<Head(rows)>> \o FilterRows(Tail(rows), q)
         ELSE FilterRows(Tail(rows), q)

\* Mutant: the first matching row is skipped.
TitleIContainsSkipsFirst(rows, q) ==
    LET r == FilterRows(rows, q) IN IF r = <<>> THEN r ELSE Tail(r)

\* queryset.filter(title__icontains=q)
TitleIContains(rows, q) == FilterRows(rows, q)

\* the posts the dashboard view puts in its context
DashboardPosts(all, method, query) ==
    LET form == SearchFormClean(query)
    IN  IF method = "GET" /\ form.ok THEN TitleIContains(all, form.value)
        ELSE all

\* Mutant: the model's validators are not run on the content.
PostFormCleanNoValidators(data, self_bad_words) ==
    LET title == CharFieldClean(data.title, TRUE, TRUE, TitleMaxLength)
        content == CharFieldClean(data.content, TRUE, FALSE, 0)
        author == CharFieldClean(data.author, TRUE, TRUE, AuthorMaxLength)
    IN  [valid |-> /\ title.ok
                   /\ content.ok
                   /\ author.ok
                   /\ data.language \in LanguageChoices,
         title |-> title.value,
         content |-> content.value,
         author |-> author.value,
         language |-> data.language,
         bad_words |-> self_bad_words]

\* The submitted fields of a bound PostBaseForm, cleaned: the form fields'
\* clean, then the model's validators on the fields that passed (_post_clean).
PostFormClean(data, self_bad_words) ==
    LET title == CharFieldClean(data.title, TRUE, TRUE, TitleMaxLength)
        content == CharFieldClean(data.content, TRUE, FALSE, 0)
        author == CharFieldClean(data.author, TRUE, TRUE, AuthorMaxLength)
        checked == IF content.ok
                   THEN BadLanguageValidatorCall(self_bad_words, content.value)
                   ELSE Returned(self_bad_words)
    IN  [valid |-> /\ title.ok
                   /\ content.ok
                   /\ author.ok
                   /\ data.language \in LanguageChoices
                   /\ checked.kind = "returned",
         title |-> title.value,
         content |-> content.value,
         author |-> author.value,
         language |-> data.language,
         bad_words |-> checked.bad_words]

\* form.is_valid() of a PostBaseForm built from `data` (request.POST or None:
\* an empty POST leaves the form unbound, and an unbound form is not valid)
UnboundForm(self_bad_words) ==
    [valid |-> FALSE, title |-> <<>>, content |-> <<>>, author |-> <<>>,
     language |-> "", bad_words |-> self_bad_words]

\* PostDeleteForm: every field is disabled, so a bound form cleans the
\* instance's own values and not the submitted ones.
InstanceData(post) ==
    [present |-> TRUE, title |-> post.title, content |-> post.content,
     author |-> post.author, language |-> post.language]

-----------------------------------------------------------------------------
(* The Post and Task tables *)

Pks(rows) == {rows[i].pk : i \in DOMAIN rows}
Exists(rows, pk) == pk \in Pks(rows)
\* Post.objects.get(pk=pk), for a pk that exists
Get(rows, pk) == rows[CHOOSE i \in DOMAIN rows : rows[i].pk = pk]

NewPost(pk, form) ==
    [pk |-> pk, title |-> form.title, content |-> form.content,
     author |-> form.author, language |-> form.language]

\* form.save() of a form with an instance: UPDATE of that row
Update(rows, pk, form) ==
    [i \in DOMAIN rows |-> IF rows[i].pk = pk THEN NewPost(pk, form) ELSE rows[i]]

\* post.delete()
RECURSIVE Delete(_, _)
Delete(rows, pk) ==
    IF rows = <<>> THEN <<>>
    ELSE IF Head(rows).pk = pk THEN Delete(Tail(rows), pk)
         ELSE <<Head(rows)>> \o Delete(Tail(rows), pk)

-----------------------------------------------------------------------------
(* Requests and responses *)

NoQuery == [present |-> FALSE, val |-> <<>>]
Query(q) == [present |-> TRUE, val |-> q]

EmptyData == [present |-> FALSE, title |-> <<>>, content |-> <<>>,
              author |-> <<>>, language |-> ""]

Request(view, method, pk, data, query) ==
    [view |-> view, method |-> method, pk |-> pk, data |-> data, query |-> query]

Render(template, valid, ctx_posts, ctx_tasks) ==
    [kind |-> "render", target |-> template, valid |-> valid,
     posts |-> ctx_posts, tasks |-> ctx_tasks]
Redirect(name) ==
    [kind |-> "redirect", target |-> name, valid |-> TRUE,
     posts |-> <<>>, tasks |-> <<>>]
\* Post.objects.get raises DoesNotExist and the view does not catch it
DoesNotExist ==
    [kind |-> "error", target |-> "DoesNotExist", valid |-> FALSE,
     posts |-> <<>>, tasks |-> <<>>]
NoResponse ==
    [kind |-> "none", target |-> "", valid |-> FALSE,
     posts |-> <<>>, tasks |-> <<>>]

-----------------------------------------------------------------------------
(* Inputs of the views *)

LongText == [i \in 1..(TitleMaxLength + 1) |-> "a"]

Ann == <<"a","n","n">>
Ok == <<"o","k">>
Hi == <<"h","i">>

Data(title, content, author, language) ==
    [present |-> TRUE, title |-> title, content |-> content,
     author |-> author, language |-> language]

\* Submissions every field of which passes.
GoodData ==
    {Data(t, c, Ann, "OTHER") : t \in {<<" ","G","o">>, <<"R","u","s","t">>},
                                c \in {<<"o","k"," ">>, Hi}}

\* Submissions with one field that does not pass.
BadData ==
    {Data(t, Ok, Ann, "OTHER") : t \in {<<" ">>, LongText}}
    \cup {Data(<<"G","o">>, c, Ann, "OTHER") :
            c \in {<<>>,
                   <<"a"," ","B","a","d","_","W","o","r","d","_","2">>,
                   <<"B","A","D","_","W","O","R","D","_","3","\n">>}}
    \cup {Data(<<"G","o">>, Ok, LongText, "OTHER"),
          Data(<<"G","o">>, Ok, Ann, "bogus")}

PostData == GoodData \cup BadData \cup {EmptyData}

Methods == {"GET", "POST"}

QueryParams ==
    {NoQuery} \cup
    {Query(q) : q \in {<<>>, <<" ">>, <<"g","o">>, <<" ","g","o">>,
                       <<"G","O"," ">>, <<"x">>, LongText}}

Task(pk, title) == [pk |-> pk, title |-> title]

\* The Task tables the index view is run on (no view of todo_app writes it).
TaskTables ==
    { <<Task(1, <<"G","o">>)>>,
      <<Task(3, <<"R","u","s","t">>), Task(1, <<"G","o">>),
        Task(2, <<"a"," ","g","o">>)>> }

\* What a delete form is submitted with: its fields are disabled, so only
\* whether anything was posted matters.
DeleteData == {EmptyData, Data(<<"x">>, <<"x">>, <<"x">>, "OTHER")}

-----------------------------------------------------------------------------
(* Views *)

\* Mutant: the view writes the filtered rows back to the table.
dashboardSavesFilter(method, query) ==
    LET form == SearchFormClean(query)
        shown == DashboardPosts(posts, method, query)
    IN  /\ request' = Request("dashboard", method, 0, EmptyData, query)
        /\ response' = Render("posts/dashboard.html", form.ok, shown, <<>>)
        /\ posts' = shown
        /\ UNCHANGED <<next_pk, tasks, validator_vars>>

\* posts.views.dashboard
dashboard(method, query) ==
    LET form == SearchFormClean(query)
        shown == DashboardPosts(posts, method, query)
    IN  /\ request' = Request("dashboard", method, 0, EmptyData, query)
        /\ response' = Render("posts/dashboard.html", form.ok, shown, <<>>)
        /\ UNCHANGED <<posts, next_pk, tasks, validator_vars>>

\* todo_app.views.index
index(title_filter) ==
    LET q == IF title_filter.present THEN title_filter.val ELSE <<>>
    IN  /\ request' = Request("tasks_index", "GET", 0, EmptyData, title_filter)
        /\ response' = Render("tasks/index.html", TRUE, <<>>,
                              TitleIContains(tasks, q))
        /\ UNCHANGED <<posts, next_pk, tasks, validator_vars>>

\* posts.views.create_post
create_post(method, data) ==
    LET form == IF data.present THEN PostFormClean(data, bad_words)
                ELSE UnboundForm(bad_words)
    IN  /\ method = "GET" => data = EmptyData
        /\ request' = Request("create_post", method, 0, data, NoQuery)
        /\ bad_words' = form.bad_words
        /\ IF method = "POST" /\ form.valid
           THEN /\ next_pk <= MaxPk
                /\ posts' = Append(posts, NewPost(next_pk, form))
                /\ next_pk' = next_pk + 1
                /\ response' = Redirect("dash")
           ELSE /\ response' = Render("posts/create-post.html", form.valid,
                                      <<>>, <<>>)
                /\ UNCHANGED <<posts, next_pk>>
        /\ UNCHANGED <<tasks, init_arg, call_value, outcome>>

\* posts.views.edit_post
edit_post(method, pk, data) ==
    /\ method = "GET" => data = EmptyData
    /\ request' = Request("edit_post", method, pk, data, NoQuery)
    /\ IF ~Exists(posts, pk)
       THEN /\ response' = DoesNotExist
            /\ UNCHANGED <<posts, bad_words>>
       ELSE IF method = "POST"
       THEN LET form == PostFormClean(data, bad_words)
            IN  /\ bad_words' = form.bad_words
                /\ IF form.valid
                   THEN /\ posts' = Update(posts, pk, form)
                        /\ response' = Redirect("dash")
                   ELSE /\ response' = Render("posts/edit-post.html", FALSE,
                                              <<Get(posts, pk)>>, <<>>)
                        /\ UNCHANGED posts
       ELSE /\ response' = Render("posts/edit-post.html", FALSE,
                                  <<Get(posts, pk)>>, <<>>)
            /\ UNCHANGED <<posts, bad_words>>
    /\ UNCHANGED <<next_pk, tasks, init_arg, call_value, outcome>>

\* Mutant: the post is deleted whatever the method and the form say.
delete_postUnchecked(method, pk, data) ==
    /\ method = "GET" => data = EmptyData
    /\ request' = Request("delete_post", method, pk, data, NoQuery)
    /\ IF ~Exists(posts, pk)
       THEN /\ response' = DoesNotExist
            /\ UNCHANGED posts
       ELSE /\ posts' = Delete(posts, pk)
            /\ response' = Redirect("dash")
    /\ UNCHANGED <<next_pk, tasks, validator_vars>>

\* posts.views.delete_post
delete_post(method, pk, data) ==
    /\ method = "GET" => data = EmptyData
    /\ request' = Request("delete_post", method, pk, data, NoQuery)
    /\ IF ~Exists(posts, pk)
       THEN /\ response' = DoesNotExist
            /\ UNCHANGED <<posts, bad_words>>
       ELSE LET post == Get(posts, pk)
                form == IF data.present
                        THEN PostFormClean(InstanceData(post), bad_words)
                        ELSE UnboundForm(bad_words)
            IN  /\ bad_words' = form.bad_words
                /\ IF method = "POST" /\ form.valid
                   THEN /\ posts' = Delete(posts, pk)
                        /\ response' = Redirect("dash")
                   ELSE /\ response' = Render("posts/delete-post.html",
                                              form.valid, <<post>>, <<>>)
                        /\ UNCHANGED posts
    /\ UNCHANGED <<next_pk, tasks, init_arg, call_value, outcome>>

-----------------------------------------------------------------------------
(* Specifications *)

Init ==
    /\ bad_words = BadLanguageValidatorInit(NoArg)
    /\ init_arg = NoArg
    /\ call_value = <<>>
    /\ outcome = NotCalled
    /\ posts = <<>>
    /\ next_pk = 1
    /\ tasks \in TaskTables
    /\ request = Request("", "", 0, EmptyData, NoQuery)
    /\ response = NoResponse

\* The views, with Post.content validated by BadLanguageValidator().
Next ==
    \/ \E method \in Methods, query \in QueryParams : dashboard(method, query)
    \/ \E title_filter \in QueryParams : index(title_filter)
    \/ \E method \in Methods, data \in PostData : create_post(method, data)
    \/ \E method \in Methods, pk \in 1..(MaxPk + 1), data \in PostData :
          edit_post(method, pk, data)
    \/ \E method \in Methods, pk \in 1..(MaxPk + 1), data \in DeleteData :
          delete_post(method, pk, data)

Spec == Init /\ [][Next]_vars

\* A validator instance on its own, constructed with any blacklist.
NextValidator ==
    \/ \E arg \in InitArgs : Construct(arg)
    \/ \E value \in Texts : Call(value)

SpecValidator == Init /\ [][NextValidator]_vars

-----------------------------------------------------------------------------
(* Vocabulary of the properties *)

\* sub occurs in s as a contiguous run of characters
IsSubstring(sub, s) ==
    \E i \in 0..Len(s), j \in 0..Len(s) : i <= j /\ SubSeq(s, i + 1, j) = sub

Blacklisted(blacklist, text) ==
    \E k \in DOMAIN blacklist : IsSubstring(Lower(blacklist[k]), Lower(text))

HasDefaultBadWord(text) ==
    \E w \in {bad_word_1, bad_word_2, bad_word_3} : IsSubstring(w, Lower(text))

Called == outcome.kind # "none"

\* the rows whose title case-insensitively contains q, in their order
TitleMatches(row, q) == IsSubstring(Lower(q), Lower(row.title))
Matching(rows, q) ==
    LET Test(row) == TitleMatches(row, q) IN SelectSeq(rows, Test)

DashboardGet == request.view = "dashboard" /\ request.method = "GET"

-----------------------------------------------------------------------------
(* BadLanguageValidator: C1 - C4 *)

\* C1: a call of the validator rejects the text (ValidationError "The text
\* contains bad language") if and only if some blacklist entry, lower-cased,
\* is a substring of the lower-cased text.
C1_RejectsIffBlacklisted ==
    Called =>
        /\ outcome.kind \in {"raised", "returned"}
        /\ (outcome.kind = "raised") <=> Blacklisted(bad_words, call_value)
        /\ outcome.kind = "raised" => outcome.message = BadLanguageMessage

\* C1 witness: a blacklisted word in another letter case was rejected.
C1_Witness ==
    /\ call_value = ShoutedText
    /\ bad_words = DefaultBadWords
    /\ outcome.kind = "raised"

\* C2 as stated: every call completes normally; a rejection is a returned
\* value and nothing is ever raised.
C2_NeverRaises == Called => outcome.kind = "returned"

\* C2 amended: a call either returns None or raises ValidationError("The text
\* contains bad language"); a rejection is always raised, never returned.
C2_RejectionIsRaised ==
    Called =>
        /\ outcome.kind \in {"raised", "returned"}
        /\ outcome.kind = "returned" =>
              /\ outcome.message = ""
              /\ ~Blacklisted(bad_words, call_value)
        /\ outcome.kind = "raised" =>
              /\ outcome.exc = "ValidationError"
              /\ outcome.message = BadLanguageMessage

\* C2 witness: a call that ended by raising ValidationError.
C2_Witness ==
    /\ outcome.kind = "raised"
    /\ outcome.exc = "ValidationError"
    /\ call_value = ExampleText

\* C3 as stated: the empty text is accepted whatever the blacklist, and the
\* empty blacklist accepts every text.
C3_EmptyAlwaysAccepted ==
    Called =>
        /\ call_value = <<>> => outcome.kind = "returned"
        /\ bad_words = <<>> => outcome.kind = "returned"

\* C3 amended: the empty text is accepted exactly when no blacklist entry is
\* the empty string (such an entry rejects every text), and the empty
\* blacklist accepts every text.
C3_EmptyAcceptedUnlessEmptyEntry ==
    Called =>
        /\ call_value = <<>> =>
              (outcome.kind = "returned"
                  <=> \A k \in DOMAIN bad_words : bad_words[k] # <<>>)
        /\ (\E k \in DOMAIN bad_words : bad_words[k] = <<>>) =>
              outcome.kind = "raised"
        /\ bad_words = <<>> => outcome.kind = "returned"

\* C3 witness: the empty text was validated against a blacklist that has
\* entries, and accepted.
C3_Witness ==
    /\ Called
    /\ call_value = <<>>
    /\ bad_words # <<>>
    /\ outcome.kind = "returned"

\* C4: constructed without a blacklist the validator holds exactly
\* bad_word_1, bad_word_2, bad_word_3; constructed with one (the empty one
\* too) it holds exactly that one; so "this has bad_word_2 inside" is
\* rejected by the default validator.
C4_DefaultBlacklist ==
    /\ ~init_arg.supplied =>
          /\ Len(bad_words) = Cardinality({bad_word_1, bad_word_2, bad_word_3})
          /\ {bad_words[k] : k \in DOMAIN bad_words}
                = {bad_word_1, bad_word_2, bad_word_3}
    /\ init_arg.supplied => bad_words = init_arg.val
    /\ (Called /\ ~init_arg.supplied /\ call_value = ExampleText) =>
          /\ outcome.kind = "raised"
          /\ outcome.message = "The text contains bad language"

\* C4 witness: a validator constructed with the empty blacklist accepted the
\* example text.
C4_Witness ==
    /\ init_arg = Arg(<<>>)
    /\ bad_words = <<>>
    /\ call_value = ExampleText
    /\ outcome.kind = "returned"

-----------------------------------------------------------------------------
(* Title filter: C5 - C8 *)

\* C5 as stated: a dashboard search for q shows exactly the posts whose
\* title case-insensitively contains q, in their order.
C5_ShowsTitlesContainingQuery ==
    (DashboardGet /\ request.query.present) =>
        response.posts = Matching(posts, request.query.val)

\* C5 amended: the search strips q first; a stripped query of at most 100
\* characters shows exactly the posts whose title contains it, in their
\* order, and a longer one shows every post.
C5_ShowsTitlesContainingStrippedQuery ==
    (DashboardGet /\ request.query.present) =>
        LET q == Strip(request.query.val)
        IN  IF Len(q) <= 100
            THEN /\ response.posts = Matching(posts, q)
                 /\ \A k \in DOMAIN posts :
                       (\E j \in DOMAIN response.posts :
                            response.posts[j] = posts[k])
                           <=> TitleMatches(posts[k], q)
            ELSE response.posts = posts

\* C5 witness: a search for " go" showed a post and left another out.
C5_Witness ==
    /\ DashboardGet
    /\ request.query = Query(<<" ","g","o">>)
    /\ response.posts # <<>>
    /\ Len(response.posts) < Len(posts)

\* C6: with the query empty or absent the dashboard shows every post and the
\* task index every task, in the stored order.
C6_EmptyQueryIsIdentity ==
    LET empty == ~request.query.present \/ request.query.val = <<>>
    IN  /\ (request.view = "dashboard" /\ empty) => response.posts = posts
        /\ (request.view = "tasks_index" /\ empty) => response.tasks = tasks

\* C6 witness: the dashboard, asked with query "", showed two posts.
C6_Witness ==
    /\ DashboardGet
    /\ request.query = Query(<<>>)
    /\ Len(posts) >= 2
    /\ response.posts = posts

\* C7: searching the posts a search showed, for the same q, shows them all
\* again.
C7_FilterIdempotent ==
    DashboardGet =>
        DashboardPosts(response.posts, "GET", request.query) = response.posts

\* C7 witness: a search showed some posts and left others out.
C7_Witness ==
    /\ DashboardGet
    /\ request.query = Query(<<"g","o">>)
    /\ response.posts # <<>>
    /\ Len(response.posts) < Len(posts)

\* C8: a dashboard request leaves the Post table as it was, the task index
\* leaves the Task table as it was, and no request changes the blacklist of
\* the validator it runs.
C8_ReadOnly ==
    [][/\ request'.view = "dashboard" => (posts' = posts /\ next_pk' = next_pk)
       /\ request'.view = "tasks_index" => tasks' = tasks
       /\ bad_words' = bad_words]_vars

\* C8 witness: a search that left a post out, with the table still whole.
C8_Witness ==
    /\ request.view = "dashboard"
    /\ Len(posts) >= 2
    /\ Len(response.posts) < Len(posts)

-----------------------------------------------------------------------------
(* Views: C9 - C10 *)

\* C9: no stored post's content contains bad_word_1, bad_word_2 or
\* bad_word_3 in any letter case.
C9_StoredContentClean ==
    \A k \in DOMAIN posts : ~HasDefaultBadWord(posts[k].content)

\* C9 witness: with a post stored, an edit submitting bad language was
\* turned down.
C9_Witness ==
    /\ posts # <<>>
    /\ request.view = "edit_post"
    /\ request.method = "POST"
    /\ Exists(posts, request.pk)
    /\ HasDefaultBadWord(request.data.content)
    /\ response.kind = "render"

\* a submission some field of which does not pass
SubmissionInvalid(data) ==
    \/ ~data.present
    \/ Strip(data.title) = <<>>
    \/ Len(Strip(data.title)) > 100
    \/ Strip(data.content) = <<>>
    \/ HasDefaultBadWord(data.content)
    \/ Strip(data.author) = <<>>
    \/ Len(Strip(data.author)) > 30
    \/ data.language \notin LanguageChoices

\* C10: a GET, or a POST to create_post or edit_post with an invalid form,
\* leaves the Post table as it was and renders the form again; the table
\* changes only on a POST that redirects, and then only in the one post
\* addressed (or by the one new post).
C10_InvalidChangesNothing ==
    [][LET r == request'
           addressed == r.view = "create_post" \/ Exists(posts, r.pk)
       IN  r.view \in {"create_post", "edit_post", "delete_post"} =>
             /\ r.method = "GET" =>
                   /\ posts' = posts
                   /\ addressed => response'.kind = "render"
             /\ (/\ r.method = "POST"
                 /\ r.view \in {"create_post", "edit_post"}
                 /\ SubmissionInvalid(r.data)) =>
                   /\ posts' = posts
                   /\ addressed => response'.kind = "render"
             /\ posts' # posts =>
                   /\ r.method = "POST"
                   /\ response'.kind = "redirect"
                   /\ r.view = "create_post" =>
                         /\ Len(posts') = Len(posts) + 1
                         /\ SubSeq(posts', 1, Len(posts)) = posts
                         /\ posts'[Len(posts')].pk \notin Pks(posts)
                   /\ r.view = "edit_post" =>
                         /\ Len(posts') = Len(posts)
                         /\ \A k \in DOMAIN posts :
                               /\ posts'[k].pk = posts[k].pk
                               /\ posts[k].pk # r.pk => posts'[k] = posts[k]
                   /\ r.view = "delete_post" =>
                         LET Kept(row) == row.pk # r.pk
                         IN  posts' = SelectSeq(posts, Kept)]_vars

\* C10 witness: a create_post POST with bad language was answered with the
\* form, not a redirect.
C10_Witness ==
    /\ request.view = "create_post"
    /\ request.method = "POST"
    /\ HasDefaultBadWord(request.data.content)
    /\ response.kind = "render"
    /\ posts # <<>>

====
